---- MODULE Spec2Model ----
(***************************************************************************)
(* Handy-Recon.py: the OSINTSystem investigation pipeline.                 *)
(*                                                                         *)
(* orchestrate_investigation runs brain_analyze, muscle_scan,              *)
(* api_gather_intel and correlate_intelligence one after the other;        *)
(* muscle_scan fans out one check_platform coroutine per configured        *)
(* platform through asyncio.gather(..., return_exceptions=True).           *)
(*                                                                         *)
(* Granularity: asyncio is cooperative, so one action is the code that     *)
(* runs between two suspension points (await) of one coroutine.            *)
(* Python values: a dict is a function from its keys, an exception object  *)
(* a record [exc_type, msg], a str a sequence of one-character strings.    *)
(* Python semantics are those of CPython >= 3.8, where                     *)
(* asyncio.CancelledError derives from BaseException, not Exception.       *)
(***************************************************************************)
EXTENDS Integers, Sequences, FiniteSets, TLC

VARIABLES
    world,          \* the environment of this run: which callers exist, what the network can answer
    now,            \* int(time.time()): the wall clock, in whole seconds
    elapsed,        \* per caller: the event loop's clock, counted from the start of its scan
                    \* and stopped when the scan returns
    self,           \* the OSINTSystem instance: [platforms, results]
    dicts,          \* the heap of dict objects muscle_scan writes: reference -> dict
    pc,             \* per caller: the stage its investigation is suspended in
    username,       \* per caller: the argument of orchestrate_investigation
    start_time,     \* per caller: start_time of line 143
    tasks,          \* per caller: muscle_scan's list `tasks`, the check_platform coroutines,
                    \* kept after the scan returned as the record of what each probe did
    results,        \* per caller: muscle_scan's local `results`, a reference into dicts
    brain_data,     \* per caller: result of brain_analyze
    scan_data,      \* per caller: result of muscle_scan
    api_data,       \* per caller: result of api_gather_intel
    report,         \* per caller: the dict orchestrate_investigation returned
    error,          \* per caller: the exception orchestrate_investigation raised
    trace,          \* per caller: the stages entered by the current call, in order (history)
    calls           \* a stage called on its own, as a test does: [fn, username, score, outs],
                    \* outs the results of the calls made so far with these arguments

vars == <<world, calls, now, elapsed, self, dicts, pc, username, start_time, tasks, results,
          brain_data, scan_data, api_data, report, error, trace>>

-----------------------------------------------------------------------------
(* Bounds and input sets *)

MaxClock == 1

\* the loop clock is sampled every TimeStep units and at every deadline, up to MaxElapsed
TimeStep == 5
MaxElapsed == 12

Callers == {"c1", "c2"}

JohnDoe == <<"j", "o", "h", "n", "_", "d", "o", "e">>
Admin123 == <<"a", "d", "m", "i", "n", "1", "2", "3">>
Usernames == {JohnDoe, Admin123}

\* usernames for brain_analyze called on its own: up to MaxFragments pieces put together
MaxFragments == 3

Fragments ==
    {<<"a", "d", "m", "i", "n">>, <<"t", "e", "s", "t">>, <<"u", "s", "e", "r">>,
     <<"t", "e">>, <<"s", "t">>, <<"a", "b">>, <<"1">>, <<"2", "3">>, <<"_">>, <<".">>,
     <<"j", "o", "h", "n">>, <<"d", "o", "e">>,
     <<"a", "1", "b", "2">>, <<"c", "3", "d", "4">>}

RECURSIVE Pieces(_)
Pieces(n) ==
    IF n = 0 THEN {<< >>}
    ELSE Pieces(n - 1) \cup {s \o f : s \in Pieces(n - 1), f \in Fragments}

UnitUsernames == Pieces(MaxFragments)

\* random.uniform(0.0, 1.0), line 181, in hundredths
MaxScore == 100
UnitScores == 0..MaxScore

\* random.uniform(0.7, 0.95), line 61, in hundredths: its two ends
Confidences == {70, 95}

None == [py |-> "None"]

\* a name that is not bound: no username outside a call, no dict before line 69,
\* no instant for a request that was not issued or has not ended
NoUsername == << >>
NoRef == "unbound"
NotYet == -1
NoCalls == [fn |-> "none", username |-> NoUsername, score |-> 0, outs |-> << >>]

-----------------------------------------------------------------------------
(* self.platforms, lines 26-32; a dict keeps insertion order *)

PlatformNames == <<"github", "twitter", "instagram", "reddit", "linkedin">>

PlatformsConfig ==
    [p \in {PlatformNames[j] : j \in 1..Len(PlatformNames)} |->
        CASE p = "github"    -> <<"https://github.com/", "{}">>
          [] p = "twitter"   -> <<"https://twitter.com/", "{}">>
          [] p = "instagram" -> <<"https://instagram.com/", "{}">>
          [] p = "reddit"    -> <<"https://reddit.com/user/", "{}">>
          [] p = "linkedin"  -> <<"https://linkedin.com/in/", "{}">>]

\* "x" < "y" on the platform names
StrLess(x, y) ==
    LET alphabetical == <<"github", "instagram", "linkedin", "reddit", "twitter">>
        pos(n) == CHOOSE k \in 1..Len(alphabetical) : alphabetical[k] = n
    IN pos(x) < pos(y)

\* self.platforms.keys() / .items(): the keys in insertion order
Keys(platforms) == SelectSeq(PlatformNames, LAMBDA p : p \in DOMAIN platforms)

\* str.format with one positional argument: every "{}" slot becomes the argument
RECURSIVE Format(_, _)
Format(template, arg) ==
    IF template = << >> THEN << >>
    ELSE (IF Head(template) = "{}" THEN arg ELSE <<Head(template)>>)
         \o Format(Tail(template), arg)

\* d[k] = v on a dict
DictSet(d, k, v) == [x \in (DOMAIN d) \cup {k} |-> IF x = k THEN v ELSE d[x]]

EmptyDict == << >>

-----------------------------------------------------------------------------
(* Exceptions *)

TimeoutError == [exc_type |-> "TimeoutError", msg |-> ""]
ClientConnectorError == [exc_type |-> "ClientConnectorError", msg |-> "Cannot connect to host"]
CancelledError == [exc_type |-> "CancelledError", msg |-> ""]
StageFault == [exc_type |-> "RuntimeError", msg |-> "stage failed"]

\* the classes that derive from Exception; CancelledError derives from BaseException only
ExceptionSubclasses == {"TimeoutError", "ClientConnectorError", "RuntimeError"}

IsExceptionObject(v) == "exc_type" \in DOMAIN v

\* isinstance(v, Exception)
IsInstanceException(v) == IsExceptionObject(v) /\ v.exc_type \in ExceptionSubclasses

\* str(e)
Str(e) == e.msg

-----------------------------------------------------------------------------
(* How the await of line 95 can end.  The transport answers with a status    *)
(* code or fails with an exception (timeout=10, connection failure); apart   *)
(* from the transport, the task can be cancelled while it waits, which       *)
(* throws CancelledError into the coroutine at that await.                   *)

Response(code) == [kind |-> "response", status |-> code]
Raised(e) == [kind |-> "raise", exc |-> e]
Cancelled == [kind |-> "cancel", exc |-> CancelledError]

TransportOutcomes ==
    {Response(200), Response(301), Response(404),
     Raised(TimeoutError), Raised(ClientConnectorError)}

AllOutcomes == TransportOutcomes \cup {Cancelled}

\* the network of the concurrent runs, which are about interleaving
SmallOutcomes == {Response(200)}

\* the network of a run with a clock: a platform answers in time or not at all
TimedOutcomes == {Response(200), Raised(TimeoutError)}


RandSuffixes == {1000, 9999}        \* random.randint(1000, 9999), line 160
RiskScores == {29, 30, 69, 70}      \* random.uniform(0.0, 1.0), line 181, in hundredths

-----------------------------------------------------------------------------
(* check_platform, lines 92-103 *)

Return(v) == [kind |-> "return", value |-> v]

\* as if line 102 read: except aiohttp.ClientError
CaughtOnlyClientError(e) == IsExceptionObject(e) /\ e.exc_type = "ClientConnectorError"

\* the except clause of line 102: which raised objects it catches
CaughtByProbe(e) == IsInstanceException(e)

\* as if line 97 read: 'found' if response.status < 400
check_platform_redirect_found(platform, url, outcome) ==
    IF outcome.kind = "response"
    THEN Return([status      |-> IF outcome.status < 400 THEN "found" ELSE "not_found",
                 status_code |-> outcome.status,
                 url         |-> url,
                 platform    |-> platform])
    ELSE IF CaughtByProbe(outcome.exc)
         THEN Return([status |-> "error", error |-> Str(outcome.exc), platform |-> platform])
         ELSE Raised(outcome.exc)

\* the coroutine's completion for one way its await can end
check_platform(platform, url, outcome) ==
    IF outcome.kind = "response"
    THEN Return([status      |-> IF outcome.status = 200 THEN "found" ELSE "not_found",
                 status_code |-> outcome.status,
                 url         |-> url,
                 platform    |-> platform])
    ELSE IF CaughtByProbe(outcome.exc)
         THEN Return([status |-> "error", error |-> Str(outcome.exc), platform |-> platform])
         ELSE Raised(outcome.exc)

-----------------------------------------------------------------------------
(* brain_analyze, lines 41-63 *)

Digits == {"0", "1", "2", "3", "4", "5", "6", "7", "8", "9"}

Blocklist == {<<"a", "d", "m", "i", "n">>, <<"t", "e", "s", "t">>, <<"u", "s", "e", "r">>}

\* x in s, for strings
Contains(s, x) ==
    \E i \in 1..(Len(s) - Len(x) + 1) : SubSeq(s, i, i + Len(x) - 1) = x

CountDigits(s) == Cardinality({i \in 1..Len(s) : s[i] \in Digits})

\* as if lines 49-52 tested the length first and the blocklist second
pattern_type_length_first(u) ==
    IF Len(u) < 5 THEN "short"
    ELSE IF \E x \in Blocklist : Contains(u, x) THEN "generic"
    ELSE IF CountDigits(u) > 2 THEN "numeric"
    ELSE "personal"

pattern_type(u) ==
    IF \E x \in Blocklist : Contains(u, x) THEN "generic"
    ELSE IF Len(u) < 5 THEN "short"
    ELSE IF CountDigits(u) > 2 THEN "numeric"
    ELSE "personal"

\* confidence and timestamp are random annotations that no stage reads
brain_analyze(u) ==
    [pattern_type |-> pattern_type(u),
     features     |-> [length         |-> Len(u),
                       has_digits     |-> \E i \in 1..Len(u) : u[i] \in Digits,
                       has_underscore |-> \E i \in 1..Len(u) : u[i] = "_",
                       has_dot        |-> \E i \in 1..Len(u) : u[i] = "."]]

\* lines 58-63: the dict brain_analyze returns; timestamp is the wall clock
BrainResult(u, confidence) ==
    [pattern_type |-> brain_analyze(u).pattern_type,
     features     |-> brain_analyze(u).features,
     confidence   |-> confidence]

-----------------------------------------------------------------------------
(* muscle_scan, lines 65-90 *)

\* lines 72-74: one coroutine per item of self.platforms, in order
CreateTasks(platforms, u) ==
    [j \in 1..Len(Keys(platforms)) |->
        [platform |-> Keys(platforms)[j],
         url      |-> Format(platforms[Keys(platforms)[j]], u),
         state    |-> "created",
         requests |-> 0,
         started  |-> NotYet,
         ended    |-> NotYet,
         outcome  |-> None,
         fin      |-> None]]

GatherResults(ts) ==
    [j \in 1..Len(ts) |->
        IF ts[j].state # "done" THEN None
        ELSE IF ts[j].fin.kind = "raise" THEN ts[j].fin.exc
        ELSE ts[j].fin.value]

\* as if line 77 read: asyncio.gather(*tasks), which raises the first exception at once
GatherFailFast(ts) ==
    LET raised == {j \in 1..Len(ts) : ts[j].state = "done" /\ ts[j].fin.kind = "raise"} IN
    [ready   |-> raised # {} \/ \A j \in 1..Len(ts) : ts[j].state = "done",
     raises  |-> raised # {},
     exc     |-> IF raised = {} THEN None ELSE ts[CHOOSE j \in raised : TRUE].fin.exc,
     results |-> GatherResults(ts)]

\* as if line 77 waited for the first probe only
GatherFirstCompleted(ts) ==
    [ready   |-> \E j \in 1..Len(ts) : ts[j].state = "done",
     raises  |-> FALSE,
     exc     |-> None,
     results |-> GatherResults(ts)]

\* asyncio.gather(*tasks, return_exceptions=True), line 77:
\* finished when every awaitable is; a raised exception is that awaitable's result
Gather(ts) ==
    [ready   |-> \A j \in 1..Len(ts) : ts[j].state = "done",
     raises  |-> FALSE,
     exc     |-> None,
     results |-> GatherResults(ts)]

\* lines 80-83: the value stored for one gathered result
Entry(result) ==
    IF IsInstanceException(result)
    THEN [status |-> "error", error |-> Str(result)]
    ELSE result

Min(a, b) == IF a < b THEN a ELSE b

\* as if the loop of lines 79-83 skipped the results that are exception objects
RECURSIVE StoreResultsSkipFaults(_, _, _, _)
StoreResultsSkipFaults(d, keys, platform_results, j) ==
    IF j > Min(Len(keys), Len(platform_results)) THEN d
    ELSE StoreResultsSkipFaults(
            IF IsExceptionObject(platform_results[j]) THEN d
            ELSE DictSet(d, keys[j], Entry(platform_results[j])),
            keys, platform_results, j + 1)

\* sorted(keys)
RECURSIVE SortedSeq(_)
SortedSeq(set) ==
    IF set = {} THEN << >>
    ELSE LET first == CHOOSE x \in set : \A y \in set : x = y \/ StrLess(x, y) IN
         <<first>> \o SortedSeq(set \ {first})

\* as if line 79 read: zip(sorted(self.platforms), platform_results)
RECURSIVE StoreResultsSortedKeys(_, _, _, _)
StoreResultsSortedKeys(d, keys, platform_results, j) ==
    LET sorted == SortedSeq({keys[k] : k \in 1..Len(keys)}) IN
    IF j > Min(Len(keys), Len(platform_results)) THEN d
    ELSE StoreResultsSortedKeys(DictSet(d, sorted[j], Entry(platform_results[j])),
                                keys, platform_results, j + 1)

\* lines 79-83: for platform, result in zip(keys, platform_results)
RECURSIVE StoreResults(_, _, _, _)
StoreResults(d, keys, platform_results, j) ==
    IF j > Min(Len(keys), Len(platform_results)) THEN d
    ELSE StoreResults(DictSet(d, keys[j], Entry(platform_results[j])),
                      keys, platform_results, j + 1)

\* as if line 69 read: results = self.results
NewResultsShared(c, heap) == [ref |-> "self.results", heap |-> heap]

\* line 69: results = {} makes a new, empty dict object that only this call holds
NewResults(c, heap) == [ref |-> c, heap |-> [heap EXCEPT ![c] = EmptyDict]]

\* as if line 89 counted the platforms that answered, not the configured ones
ScanReportCountingAnswers(u, ref, platforms) ==
    [username         |-> u,
     platform_results |-> ref,
     total_checked    |-> Cardinality({p \in DOMAIN dicts'[ref] :
                                          "status_code" \in DOMAIN dicts'[ref][p]})]

\* lines 85-90; scan_duration is a random annotation that no stage reads
ScanReport(u, ref, platforms) ==
    [username         |-> u,
     platform_results |-> ref,
     total_checked    |-> Cardinality(DOMAIN platforms)]

-----------------------------------------------------------------------------
(* api_gather_intel, lines 105-117, and correlate_intelligence, lines 170-195 *)

\* breach_data, social_analysis and reputation_score are random annotations
\* that no stage reads
api_gather_intel(u) ==
    [username |-> u]

\* as if line 186 compared with <= : the boundary scores fall in the lower bucket
risk_level_inclusive(score) ==
    IF score <= 30 THEN "low" ELSE IF score <= 70 THEN "medium" ELSE "high"

\* line 186, the score in hundredths
risk_level(score) ==
    IF score < 30 THEN "low" ELSE IF score < 70 THEN "medium" ELSE "high"

correlate_intelligence(score) ==
    [risk_assessment |->
        [score   |-> score,
         level   |-> risk_level(score),
         factors |-> <<"multiple_platforms", "pattern_analysis", "breach_data">>]]

\* f"op_{int(time.time())}_{random.randint(1000, 9999)}", line 160
operation_id(t, r) == <<"op_", t, "_", r>>


-----------------------------------------------------------------------------
(* State *)

Refs == {"self.results"} \cup Callers

Stages == <<"PatternAnalysis", "Scanning", "IntelligenceGathering", "Correlation", "Complete">>

\* __init__, lines 21-32
InitSystem ==
    /\ now = 0
    /\ elapsed = [c \in Callers |-> 0]
    /\ self = [platforms |-> PlatformsConfig, results |-> "self.results"]
    /\ dicts = [r \in Refs |-> EmptyDict]
    /\ pc = [c \in Callers |-> "Idle"]
    /\ username = [c \in Callers |-> NoUsername]
    /\ start_time = [c \in Callers |-> 0]
    /\ tasks = [c \in Callers |-> << >>]
    /\ results = [c \in Callers |-> NoRef]
    /\ brain_data = [c \in Callers |-> None]
    /\ scan_data = [c \in Callers |-> None]
    /\ api_data = [c \in Callers |-> None]
    /\ report = [c \in Callers |-> None]
    /\ error = [c \in Callers |-> None]
    /\ trace = [c \in Callers |-> << >>]

\* main() and cli(): one caller that awaits each investigation before the next
Init ==
    /\ world = [callers |-> {"c1"}, outcomes |-> AllOutcomes, timed |-> FALSE]
    /\ calls = NoCalls
    /\ InitSystem

\* two callers investigating on the same OSINTSystem at once
InitConc ==
    /\ world = [callers |-> Callers, outcomes |-> SmallOutcomes, timed |-> FALSE]
    /\ calls = NoCalls
    /\ InitSystem

-----------------------------------------------------------------------------
(* Actions: each is the code one coroutine runs between two awaits *)

\* time.time() moves on
Tick ==
    /\ now < MaxClock
    /\ now' = now + 1
    /\ UNCHANGED <<world, calls, elapsed, self, dicts, pc, username, start_time, tasks, results,
                   brain_data, scan_data, api_data, report, error, trace>>

\* lines 139-146 and 34-39: the call, up to brain_analyze's sleep
Investigate(c, u) ==
    /\ c \in world.callers
    /\ pc[c] = "Idle"
    /\ pc' = [pc EXCEPT ![c] = "PatternAnalysis"]
    /\ username' = [username EXCEPT ![c] = u]
    /\ start_time' = [start_time EXCEPT ![c] = now]
    /\ trace' = [trace EXCEPT ![c] = <<"PatternAnalysis">>]
    /\ UNCHANGED <<world, calls, elapsed, now, self, dicts, tasks, results,
                   brain_data, scan_data, api_data, report, error>>

\* lines 41-63, 149, 65-77: brain_analyze returns, muscle_scan runs up to the gather
BrainAnalyzed(c) ==
    /\ pc[c] = "PatternAnalysis"
    /\ LET new == NewResults(c, dicts) IN
        /\ brain_data' = [brain_data EXCEPT ![c] = brain_analyze(username[c])]
        /\ results' = [results EXCEPT ![c] = new.ref]
        /\ dicts' = new.heap
        /\ tasks' = [tasks EXCEPT ![c] = CreateTasks(self.platforms, username[c])]
    /\ pc' = [pc EXCEPT ![c] = "Scanning"]
    /\ elapsed' = [elapsed EXCEPT ![c] = 0]
    /\ trace' = [trace EXCEPT ![c] = Append(@, "Scanning")]
    /\ UNCHANGED <<world, calls, now, self, username, start_time, scan_data, api_data, report, error>>

\* as if the loop of lines 72-74 read: tasks.append(await self.check_platform(...)),
\* each probe awaited before the next is made
CanStartSequential(ts, j) ==
    /\ ts[j].state = "created"
    /\ \A k \in 1..(j - 1) : ts[k].state = "done"

\* lines 72-77: gather schedules every coroutine of `tasks` at once, and the loop
\* runs their first steps in list order
CanStart(ts, j) ==
    /\ ts[j].state = "created"
    /\ \A k \in 1..(j - 1) : ts[k].state # "created"

\* per-probe timeout, line 95: timeout=10
ProbeTimeout == 10

\* as if line 95 passed timeout=None: the request has no deadline
DeadlineNone(t) == MaxElapsed + ProbeTimeout

\* the instant at which the request of task t is given up, line 95
Deadline(t) == t.started + ProbeTimeout

\* when the request of task t, at loop time e, can end with outcome:
\* asyncio.TimeoutError at its deadline, everything else before it
CanEnd(t, e, outcome) ==
    IF outcome = Raised(TimeoutError) THEN e = Deadline(t) ELSE e < Deadline(t)

\* as if check_platform went back to issue the request again after a failed attempt
CompletedWithRetry(t, e, outcome) ==
    IF outcome.kind = "raise" /\ t.requests < 2
    THEN [t EXCEPT !.state = "created"]
    ELSE [t EXCEPT !.state = "done", !.ended = e, !.outcome = outcome,
                   !.fin = check_platform(t.platform, t.url, outcome)]

\* lines 95-103: the one request of the coroutine ends, and the coroutine with it
Completed(t, e, outcome) ==
    [t EXCEPT !.state = "done", !.ended = e, !.outcome = outcome,
              !.fin = check_platform(t.platform, t.url, outcome)]

\* lines 94-95: a task's first step issues the request
ProbeStart(c, j) ==
    /\ pc[c] = "Scanning"
    /\ j \in 1..Len(tasks[c])
    /\ CanStart(tasks[c], j)
    /\ tasks' = [tasks EXCEPT ![c][j].state = "inflight",
                             ![c][j].requests = @ + 1,
                             ![c][j].started = elapsed[c]]
    /\ UNCHANGED <<world, calls, elapsed, now, self, dicts, pc, username, start_time, results,
                   brain_data, scan_data, api_data, report, error, trace>>

\* lines 95-103: the request ends, the coroutine returns or raises
ProbeDone(c, j, outcome) ==
    /\ pc[c] = "Scanning"
    /\ j \in 1..Len(tasks[c])
    /\ tasks[c][j].state = "inflight"
    /\ outcome \in world.outcomes
    /\ world.timed => CanEnd(tasks[c][j], elapsed[c], outcome)
    /\ tasks' = [tasks EXCEPT ![c][j] = Completed(@, elapsed[c], outcome)]
    /\ UNCHANGED <<world, calls, elapsed, now, self, dicts, pc, username, start_time, results,
                   brain_data, scan_data, api_data, report, error, trace>>

\* lines 77-90, 152, 105-110: the gather ends, muscle_scan returns,
\* api_gather_intel runs up to its sleep
Scanned(c) ==
    /\ pc[c] = "Scanning"
    /\ LET g == Gather(tasks[c]) IN
        /\ g.ready
        /\ IF g.raises
           THEN /\ pc' = [pc EXCEPT ![c] = "Failed"]
                /\ error' = [error EXCEPT ![c] = g.exc]
                /\ UNCHANGED <<dicts, scan_data, trace>>
           ELSE /\ dicts' = [dicts EXCEPT ![results[c]] =
                               StoreResults(@, Keys(self.platforms), g.results, 1)]
                /\ scan_data' = [scan_data EXCEPT ![c] =
                               ScanReport(username[c], results[c], self.platforms)]
                /\ pc' = [pc EXCEPT ![c] = "IntelligenceGathering"]
                /\ trace' = [trace EXCEPT ![c] = Append(@, "IntelligenceGathering")]
                /\ UNCHANGED error
    /\ UNCHANGED <<world, calls, elapsed, now, self, username, start_time, tasks, results,
                   brain_data, api_data, report>>

\* lines 112-117, 155, 170-174: api_gather_intel returns,
\* correlate_intelligence runs up to its sleep
IntelGathered(c) ==
    /\ pc[c] = "IntelligenceGathering"
    /\ api_data' = [api_data EXCEPT ![c] = api_gather_intel(username[c])]
    /\ pc' = [pc EXCEPT ![c] = "Correlation"]
    /\ trace' = [trace EXCEPT ![c] = Append(@, "Correlation")]
    /\ UNCHANGED <<world, calls, elapsed, now, self, dicts, username, start_time, tasks, results,
                   brain_data, scan_data, report, error>>

\* lines 159-168
InvestigationReport(c, final_analysis, suffix) ==
    [operation_id     |-> operation_id(now, suffix),
     username         |-> username[c],
     brain_analysis   |-> brain_data[c],
     scan_results     |-> scan_data[c],
     api_intelligence |-> api_data[c],
     final_analysis   |-> final_analysis,
     total_duration   |-> now - start_time[c],
     timestamp        |-> now]

\* lines 176-195, 157-168: correlate_intelligence returns, the report is returned
Correlated(c, score, suffix) ==
    /\ pc[c] = "Correlation"
    /\ score \in RiskScores
    /\ suffix \in RandSuffixes
    /\ report' = [report EXCEPT ![c] =
                    InvestigationReport(c, correlate_intelligence(score), suffix)]
    /\ pc' = [pc EXCEPT ![c] = "Complete"]
    /\ trace' = [trace EXCEPT ![c] = Append(@, "Complete")]
    /\ UNCHANGED <<world, calls, elapsed, now, self, dicts, username, start_time, tasks, results,
                   brain_data, scan_data, api_data, error>>

\* as if lines 146-155 sat in a try block whose handler raised a new, generic error
PropagateReplaced(stage, e) == [exc_type |-> "RuntimeError", msg |-> "investigation failed"]

\* what orchestrate_investigation raises when the stage it awaits raises e:
\* lines 146-155 have no handler, the exception leaves the call as it is
Propagate(stage, e) == e

\* an awaited stage raises instead of returning (lines 39, 110, 174)
StageRaises(c) ==
    /\ pc[c] \in {"PatternAnalysis", "IntelligenceGathering", "Correlation"}
    /\ error' = [error EXCEPT ![c] = Propagate(pc[c], StageFault)]
    /\ pc' = [pc EXCEPT ![c] = "Failed"]
    /\ UNCHANGED <<world, calls, elapsed, now, self, dicts, username, start_time, tasks, results,
                   brain_data, scan_data, api_data, report, trace>>

\* the caller is done with the call (lines 213-215, 227-231): its objects are released
Release(c) ==
    /\ dicts' = [dicts EXCEPT ![c] = EmptyDict]
    /\ pc' = [pc EXCEPT ![c] = "Idle"]
    /\ username' = [username EXCEPT ![c] = NoUsername]
    /\ start_time' = [start_time EXCEPT ![c] = 0]
    /\ brain_data' = [brain_data EXCEPT ![c] = None]
    /\ scan_data' = [scan_data EXCEPT ![c] = None]
    /\ api_data' = [api_data EXCEPT ![c] = None]
    /\ report' = [report EXCEPT ![c] = None]
    /\ error' = [error EXCEPT ![c] = None]
    /\ trace' = [trace EXCEPT ![c] = << >>]
    /\ tasks' = [tasks EXCEPT ![c] = << >>]
    /\ results' = [results EXCEPT ![c] = NoRef]
    /\ elapsed' = [elapsed EXCEPT ![c] = 0]
    /\ UNCHANGED <<world, calls, now, self>>

\* lines 211-215, 224-228: the caller saves the report
SaveResults(c) ==
    /\ pc[c] = "Complete"
    /\ Release(c)

\* lines 230-231: the caller reports the exception
ReportError(c) ==
    /\ pc[c] = "Failed"
    /\ Release(c)

Next ==
    \/ Tick
    \/ \E c \in Callers, u \in Usernames : Investigate(c, u)
    \/ \E c \in Callers : BrainAnalyzed(c)
    \/ \E c \in Callers, j \in 1..Len(PlatformNames) : ProbeStart(c, j)
    \/ \E c \in Callers, j \in 1..Len(PlatformNames), o \in AllOutcomes : ProbeDone(c, j, o)
    \/ \E c \in Callers : Scanned(c)
    \/ \E c \in Callers : IntelGathered(c)
    \/ \E c \in Callers, s \in RiskScores, x \in RandSuffixes : Correlated(c, s, x)
    \/ \E c \in Callers : StageRaises(c)
    \/ \E c \in Callers : SaveResults(c)
    \/ \E c \in Callers : ReportError(c)

Spec == Init /\ [][Next]_vars

\* main() on a loop whose clock is observed
InitTimed ==
    /\ world = [callers |-> {"c1"}, outcomes |-> TimedOutcomes, timed |-> TRUE]
    /\ calls = NoCalls
    /\ InitSystem

\* the coroutines of caller c's scan that can run a step without the clock moving
Runnable(c) ==
    \/ \E j \in 1..Len(tasks[c]) : CanStart(tasks[c], j)
    \/ Gather(tasks[c]).ready

\* the deadlines of the requests in flight in caller c's scan
Deadlines(c) ==
    {Deadline(tasks[c][j]) : j \in {k \in 1..Len(tasks[c]) : tasks[c][k].state = "inflight"}}

\* the loop has nothing to run and sleeps until the next sampling instant
\* or the next deadline, whichever is first
Elapse ==
    /\ world.timed
    /\ \E c \in world.callers : pc[c] = "Scanning"
    /\ \A c \in world.callers : pc[c] = "Scanning" =>
            /\ ~Runnable(c)
            /\ elapsed[c] < MaxElapsed
            /\ \A d \in Deadlines(c) : elapsed[c] < d
    /\ elapsed' = [c \in Callers |->
                      IF c \in world.callers /\ pc[c] = "Scanning"
                      THEN LET next == elapsed[c] + TimeStep
                               due  == {d \in Deadlines(c) : d <= next} IN
                           IF due = {} THEN Min(next, MaxElapsed)
                           ELSE CHOOSE d \in due : \A x \in due : d <= x
                      ELSE elapsed[c]]
    /\ UNCHANGED <<world, calls, now, self, dicts, pc, username, start_time, tasks, results,
                   brain_data, scan_data, api_data, report, error, trace>>

NextTimed ==
    \/ Next
    \/ Elapse

SpecTimed == InitTimed /\ [][NextTimed]_vars

\* what the event loop guarantees: its clock advances, a coroutine that can run a step
\* runs it, a sleep (lines 39, 110, 174) returns, and a request that reached its
\* deadline is given up (line 95). Nothing is assumed about the network or the caller.
Fairness ==
    /\ WF_vars(Elapse)
    /\ \A c \in Callers :
          /\ WF_vars(BrainAnalyzed(c))
          /\ WF_vars(\E j \in 1..Len(PlatformNames) : ProbeStart(c, j))
          /\ WF_vars(\E j \in 1..Len(PlatformNames) : ProbeDone(c, j, Raised(TimeoutError)))
          /\ WF_vars(Scanned(c))
          /\ WF_vars(IntelGathered(c))
          /\ WF_vars(\E s \in RiskScores, x \in RandSuffixes : Correlated(c, s, x))

SpecLive == InitTimed /\ [][NextTimed]_vars /\ Fairness

SpecConc == InitConc /\ [][Next]_vars

-----------------------------------------------------------------------------
(* brain_analyze and correlate_intelligence called on their own *)

\* the test picks the stage and its input: a username, or the score the generator gives
InitUnit ==
    /\ world = [callers |-> {}, outcomes |-> {}, timed |-> FALSE]
    /\ calls \in {[fn |-> "brain_analyze", username |-> u, score |-> 0, outs |-> << >>] :
                      u \in UnitUsernames}
               \cup {[fn |-> "correlate_intelligence", username |-> JohnDoe, score |-> x,
                       outs |-> << >>] : x \in UnitScores}
    /\ InitSystem

\* lines 34-63: await osint.brain_analyze(username)
CallBrainAnalyze(confidence) ==
    /\ calls.fn = "brain_analyze"
    /\ Len(calls.outs) < 2
    /\ calls' = [calls EXCEPT !.outs = Append(@, BrainResult(calls.username, confidence))]
    /\ UNCHANGED <<world, now, elapsed, self, dicts, pc, username, start_time, tasks, results,
                   brain_data, scan_data, api_data, report, error, trace>>

\* lines 170-195: await osint.correlate_intelligence(username, ...), the generator giving score
CallCorrelate ==
    /\ calls.fn = "correlate_intelligence"
    /\ Len(calls.outs) < 2
    /\ calls' = [calls EXCEPT !.outs = Append(@, correlate_intelligence(calls.score))]
    /\ UNCHANGED <<world, now, elapsed, self, dicts, pc, username, start_time, tasks, results,
                   brain_data, scan_data, api_data, report, error, trace>>

NextUnit ==
    \/ \E confidence \in Confidences : CallBrainAnalyze(confidence)
    \/ CallCorrelate

SpecUnit == InitUnit /\ [][NextUnit]_vars

-----------------------------------------------------------------------------
(* Vocabulary of the properties *)

Statuses == {"found", "not_found", "error"}

\* muscle_scan has returned to caller c's investigation
ScanReturned(c) == scan_data[c] # None

\* the dict behind scan_data['platform_results']
Mapping(c) == dicts[scan_data[c].platform_results]

\* the status of a stored value; an exception object has none
StatusOf(v) == IF "status" \in DOMAIN v THEN v.status ELSE "none"

Last(s) == s[Len(s)]

\* the investigation of c has been in Scanning and has left it
ScanLeft(c) == Len(trace[c]) >= 2 /\ pc[c] # "Scanning"

AllDone(c) ==
    /\ Len(tasks[c]) = Cardinality(DOMAIN self.platforms)
    /\ \A j \in 1..Len(tasks[c]) : tasks[c][j].state = "done"

-----------------------------------------------------------------------------
(* C1: whatever the probes did (found, not_found, error, cancelled, in any  *)
(* completion order), the mapping muscle_scan returns has exactly the keys  *)
(* of self.platforms: no platform is omitted and none is added.             *)
C1_OneEntryPerPlatform ==
    \A c \in Callers :
        ScanReturned(c) =>
            /\ DOMAIN Mapping(c) = DOMAIN self.platforms
            /\ Cardinality(DOMAIN Mapping(c)) = Len(PlatformNames)

\* a scan has returned although every one of its probes failed
C1_Witness ==
    \E c \in Callers :
        /\ ScanReturned(c)
        /\ \A p \in DOMAIN self.platforms :
              p \in DOMAIN Mapping(c) /\ StatusOf(Mapping(c)[p]) \in {"error", "none"}
        /\ \E p \in DOMAIN self.platforms : StatusOf(Mapping(c)[p]) = "none"
        /\ \E p \in DOMAIN self.platforms : StatusOf(Mapping(c)[p]) = "error"

(* C2: when an investigation has left Scanning, every probe it launched has *)
(* completed or failed and the scan has returned its report (no early       *)
(* return, nothing left outstanding); and what is recorded for a platform   *)
(* whose probe returned is that probe's own outcome, whatever the other     *)
(* probes did.                                                              *)
C2_WaitsForAllProbes ==
    \A c \in Callers :
        ScanLeft(c) =>
            /\ AllDone(c)
            /\ ScanReturned(c)
            /\ \A j \in 1..Len(tasks[c]) :
                  tasks[c][j].fin.kind = "return" =>
                      /\ tasks[c][j].platform \in DOMAIN Mapping(c)
                      /\ Mapping(c)[tasks[c][j].platform] = tasks[c][j].fin.value

\* the first probe failed abnormally, the others were answered, and the scan returned
C2_Witness ==
    \E c \in Callers :
        /\ ScanReturned(c)
        /\ tasks[c][1].fin.kind = "raise"
        /\ \A j \in 2..Len(tasks[c]) :
              /\ tasks[c][j].fin.kind = "return"
              /\ StatusOf(Mapping(c)[tasks[c][j].platform]) = "found"

(* C3: when a probe's coroutine ends by raising instead of returning an     *)
(* outcome (a cancellation of that probe), the scan still returns and the   *)
(* entry recorded for that platform is an outcome with status 'error'.      *)
C3_AbnormalProbeRecordedAsError ==
    \A c \in Callers :
        ScanLeft(c) =>
            /\ ScanReturned(c)
            /\ \A j \in 1..Len(tasks[c]) :
                  (tasks[c][j].state = "done" /\ tasks[c][j].fin.kind = "raise") =>
                      StatusOf(Mapping(c)[tasks[c][j].platform]) = "error"

(* C4: for every way the transport can end a request (a response, a         *)
(* timeout, a connection failure) check_platform returns an outcome and     *)
(* does not raise, and every transport failure is returned with status      *)
(* 'error' and the failure's text under 'error'.                            *)
C4_ProbeNeverRaises ==
    \A c \in Callers : \A j \in 1..Len(tasks[c]) :
        (tasks[c][j].state = "done" /\ tasks[c][j].outcome \in TransportOutcomes) =>
            /\ tasks[c][j].fin.kind = "return"
            /\ StatusOf(tasks[c][j].fin.value) \in Statuses
            /\ tasks[c][j].fin.value.platform = tasks[c][j].platform
            /\ tasks[c][j].outcome.kind = "raise" =>
                  /\ tasks[c][j].fin.value.status = "error"
                  /\ "error" \in DOMAIN tasks[c][j].fin.value
                  /\ tasks[c][j].fin.value.error = tasks[c][j].outcome.exc.msg

\* one scan saw a timeout and a connection failure, and both probes returned
C4_Witness ==
    \E c \in Callers : \E j, k \in 1..Len(tasks[c]) :
        /\ tasks[c][j].outcome = Raised(TimeoutError)
        /\ tasks[c][k].outcome = Raised(ClientConnectorError)
        /\ tasks[c][j].fin.kind = "return"
        /\ tasks[c][k].fin.kind = "return"

(* C5: the status a probe returns is a function of the transport outcome:   *)
(* 'found' exactly for a response with code 200, 'not_found' exactly for a  *)
(* response with any other code (a 3xx included), 'error' exactly for a     *)
(* transport failure; and every status recorded in a scan's mapping is one  *)
(* of the three, 'found' only where the platform answered 200.              *)
C5_TriStateStatus ==
    /\ \A c \in Callers : \A j \in 1..Len(tasks[c]) :
        (tasks[c][j].state = "done" /\ tasks[c][j].outcome \in TransportOutcomes) =>
            /\ tasks[c][j].fin.kind = "return"
            /\ LET st == StatusOf(tasks[c][j].fin.value)
                   o  == tasks[c][j].outcome IN
                /\ st \in Statuses
                /\ st = "found" <=> (o.kind = "response" /\ o.status = 200)
                /\ st = "not_found" <=> (o.kind = "response" /\ o.status # 200)
                /\ st = "error" <=> o.kind = "raise"
    /\ \A c \in Callers :
        ScanReturned(c) =>
            \A j \in 1..Len(tasks[c]) :
                LET p == tasks[c][j].platform IN
                /\ p \in DOMAIN Mapping(c)
                /\ "status" \in DOMAIN Mapping(c)[p] => Mapping(c)[p].status \in Statuses
                /\ StatusOf(Mapping(c)[p]) = "found" => tasks[c][j].outcome = Response(200)

\* one returned scan holds a 200, a redirect, a 404 and a timeout
C5_Witness ==
    \E c \in Callers :
        /\ ScanReturned(c)
        /\ \E j \in 1..Len(tasks[c]) :
              tasks[c][j].outcome = Response(200)
              /\ Mapping(c)[tasks[c][j].platform].status = "found"
        /\ \E j \in 1..Len(tasks[c]) :
              tasks[c][j].outcome = Response(301)
              /\ Mapping(c)[tasks[c][j].platform].status = "not_found"
        /\ \E j \in 1..Len(tasks[c]) :
              tasks[c][j].outcome = Response(404)
              /\ Mapping(c)[tasks[c][j].platform].status = "not_found"
        /\ \E j \in 1..Len(tasks[c]) :
              tasks[c][j].outcome = Raised(TimeoutError)
              /\ Mapping(c)[tasks[c][j].platform].status = "error"

(* C6: an investigation enters its stages in the order PatternAnalysis,     *)
(* Scanning, IntelligenceGathering, Correlation, Complete, none skipped and *)
(* none twice, and a stage is entered only when the result of the stage     *)
(* before it is there: IntelligenceGathering never while a probe of the     *)
(* scan is outstanding.                                                     *)
C6_StagesInOrder ==
    \A c \in Callers :
        /\ Len(trace[c]) <= Len(Stages)
        /\ trace[c] = SubSeq(Stages, 1, Len(trace[c]))
        /\ pc[c] = "Idle" <=> trace[c] = << >>
        /\ pc[c] \notin {"Idle", "Failed"} => pc[c] = Last(trace[c])
        /\ Len(trace[c]) >= 2 => brain_data[c] # None
        /\ Len(trace[c]) >= 3 => ScanReturned(c) /\ AllDone(c)
        /\ Len(trace[c]) >= 4 => api_data[c] # None
        /\ Len(trace[c]) >= 5 => report[c] # None
        /\ Len(trace[c]) < 5 => report[c] = None
        /\ Len(trace[c]) < 4 => api_data[c] = None
        /\ Len(trace[c]) < 3 => scan_data[c] = None
        /\ Len(trace[c]) < 2 => brain_data[c] = None /\ tasks[c] = << >>

\* an investigation went through all five stages
C6_Witness ==
    \E c \in Callers : pc[c] = "Complete" /\ trace[c] = Stages

ReportFields ==
    {"operation_id", "username", "brain_analysis", "scan_results", "api_intelligence",
     "final_analysis", "total_duration", "timestamp"}

(* C7: an investigation fails only in PatternAnalysis, IntelligenceGathering *)
(* or Correlation, and then there is no report and no later stage has run;  *)
(* it never fails in Scanning, whatever the probes did; and a report exists *)
(* only at Complete, with every field populated.                            *)
C7_FatalStagesOnly ==
    \A c \in Callers :
        /\ pc[c] = "Failed" =>
              /\ report[c] = None
              /\ error[c] # None
              /\ Last(trace[c]) \in {"PatternAnalysis", "IntelligenceGathering", "Correlation"}
              /\ Last(trace[c]) = "PatternAnalysis" =>
                    brain_data[c] = None /\ tasks[c] = << >> /\ scan_data[c] = None
              /\ Last(trace[c]) \in {"PatternAnalysis", "IntelligenceGathering"} =>
                    api_data[c] = None
        /\ ScanLeft(c) => ScanReturned(c)
        /\ report[c] # None <=> pc[c] = "Complete"
        /\ pc[c] = "Complete" =>
              /\ DOMAIN report[c] = ReportFields
              /\ report[c].brain_analysis # None
              /\ report[c].scan_results # None
              /\ report[c].api_intelligence # None
              /\ report[c].final_analysis # None
              /\ report[c].username = username[c]
              /\ DOMAIN dicts[report[c].scan_results.platform_results] = DOMAIN self.platforms

\* every probe of the scan failed, the scan went on to IntelligenceGathering,
\* and the failure of that stage left the call without a report
C7_Witness ==
    \E c \in Callers :
        /\ pc[c] = "Failed"
        /\ Last(trace[c]) = "IntelligenceGathering"
        /\ report[c] = None
        /\ \A p \in DOMAIN self.platforms : StatusOf(Mapping(c)[p]) = "error"

(* C8: a call that fails delivers to its caller an error that names the     *)
(* stage that failed together with the underlying cause.                    *)
C8_ErrorNamesStage ==
    \A c \in Callers :
        pc[c] = "Failed" =>
            /\ "stage" \in DOMAIN error[c]
            /\ error[c].stage = Last(trace[c])

(* C8 as amended: a call that does not return a report fails as a whole and *)
(* delivers to its caller the exception the failed stage raised, unchanged: *)
(* the cause, with no stage name attached.  A call that returns a report    *)
(* raises nothing.                                                          *)
C8_ErrorIsTheCause ==
    \A c \in Callers :
        /\ pc[c] = "Failed" =>
              /\ error[c] = StageFault
              /\ "stage" \notin DOMAIN error[c]
              /\ report[c] = None
        /\ pc[c] # "Failed" => error[c] = None
        /\ (pc[c] # "Idle" /\ Len(trace[c]) = Len(Stages)) => report[c] # None

\* the Correlation stage failed and the caller holds its exception
C8_Witness ==
    \E c \in Callers :
        /\ pc[c] = "Failed"
        /\ Last(trace[c]) = "Correlation"
        /\ error[c] = StageFault

(* C9: with two investigations running at once on one OSINTSystem, the      *)
(* mapping of each holds, for every platform, the outcome of its own probe  *)
(* of that platform, whose url is built from its own username; the two      *)
(* mappings are different objects, and neither is self.results.             *)
C9_NoSharedMapping ==
    \A c \in Callers :
        ScanReturned(c) =>
            /\ scan_data[c].username = username[c]
            /\ scan_data[c].platform_results # self.results
            /\ \A d \in Callers \ {c} :
                  ScanReturned(d) =>
                      scan_data[d].platform_results # scan_data[c].platform_results
            /\ DOMAIN Mapping(c) = DOMAIN self.platforms
            /\ \A j \in 1..Len(tasks[c]) :
                  LET p == tasks[c][j].platform IN
                  /\ tasks[c][j].fin.kind = "return" => Mapping(c)[p] = tasks[c][j].fin.value
                  /\ "url" \in DOMAIN Mapping(c)[p] =>
                        Mapping(c)[p].url = Format(self.platforms[p], username[c])

\* two investigations for different usernames both hold a scan report
C9_Witness ==
    \E c, d \in Callers :
        /\ c # d
        /\ ScanReturned(c) /\ ScanReturned(d)
        /\ pc[c] = "IntelligenceGathering"
        /\ pc[d] = "IntelligenceGathering"
        /\ scan_data[c].username = JohnDoe
        /\ scan_data[d].username = Admin123
        /\ Mapping(c)["github"].url # Mapping(d)["github"].url

(* C10: two completed investigations never carry the same operation_id,     *)
(* also when they complete within the same clock second.                    *)
C10_UniqueOperationId ==
    \A c, d \in Callers :
        (c # d /\ report[c] # None /\ report[d] # None) =>
            report[c].operation_id # report[d].operation_id

(* C11: in every report, scan_results.total_checked is the number of         *)
(* configured platforms and the number of entries of the outcome mapping,    *)
(* whatever the statuses are, also when every probe failed.                  *)
C11_TotalChecked ==
    \A c \in Callers :
        /\ ScanReturned(c) =>
              /\ scan_data[c].total_checked = Cardinality(DOMAIN self.platforms)
              /\ scan_data[c].total_checked = Cardinality(DOMAIN Mapping(c))
        /\ report[c] # None =>
              /\ report[c].scan_results.total_checked = Len(PlatformNames)
              /\ report[c].scan_results.total_checked =
                    Cardinality(DOMAIN dicts[report[c].scan_results.platform_results])

\* a report whose scan found nothing but transport errors
C11_Witness ==
    \E c \in Callers :
        /\ report[c] # None
        /\ report[c].scan_results.total_checked = 5
        /\ \A p \in DOMAIN self.platforms :
              StatusOf(dicts[report[c].scan_results.platform_results][p]) = "error"

(* C16: investigations leave the instance as __init__ made it: self.platforms *)
(* is the configured name-to-template mapping and self.results is the empty  *)
(* dict, during and after any sequence of successful and failed calls.       *)
C16_InstanceUnchanged ==
    /\ self.platforms = PlatformsConfig
    /\ self.results = "self.results"
    /\ dicts[self.results] = EmptyDict

\* a call has returned its report with all five platforms filled in, and the instance is untouched
C16_Witness ==
    \E c \in Callers :
        /\ pc[c] = "Complete"
        /\ DOMAIN Mapping(c) = DOMAIN PlatformsConfig
        /\ now > start_time[c]
        /\ dicts[self.results] = EmptyDict
        /\ self.platforms = PlatformsConfig

(* C17: the value stored under platform p is the result of the probe that    *)
(* was issued for p, against p's own url template filled with this           *)
(* investigation's username, whatever the other probes did and in whatever   *)
(* order they ended.                                                         *)
C17_ResultUnderOwnPlatform ==
    \A c \in Callers :
        ScanReturned(c) =>
            \A p \in DOMAIN self.platforms :
                \E j \in 1..Len(tasks[c]) :
                    /\ tasks[c][j].platform = p
                    /\ tasks[c][j].url = Format(self.platforms[p], username[c])
                    /\ \A k \in 1..Len(tasks[c]) : tasks[c][k].platform = p => k = j
                    /\ p \in DOMAIN Mapping(c)
                    /\ Mapping(c)[p] = GatherResults(tasks[c])[j]
                    /\ "url" \in DOMAIN Mapping(c)[p] => Mapping(c)[p].url = tasks[c][j].url

\* github answered 200, twitter 404, instagram timed out, and each is stored under its own name
C17_Witness ==
    \E c \in Callers :
        /\ ScanReturned(c)
        /\ StatusOf(Mapping(c)["github"]) = "found"
        /\ StatusOf(Mapping(c)["twitter"]) = "not_found"
        /\ StatusOf(Mapping(c)["instagram"]) = "error"
        /\ tasks[c][1].outcome = Response(200)
        /\ tasks[c][2].outcome = Response(404)
        /\ tasks[c][3].outcome = Raised(TimeoutError)

(* C18: every value stored in a scan's mapping carries a 'platform' field    *)
(* equal to the key it is stored under.                                      *)
C18_PlatformFieldIsKey ==
    \A c \in Callers :
        ScanReturned(c) =>
            \A p \in DOMAIN Mapping(c) :
                /\ "platform" \in DOMAIN Mapping(c)[p]
                /\ Mapping(c)[p].platform = p

(* C12: all probes of a scan are in flight together: every probe is started  *)
(* at the instant the scan starts, before the clock moves or the scan takes  *)
(* a result, so each probe ends within one timeout of the start of the scan, *)
(* the scan never runs longer than one per-probe timeout, and a scan whose   *)
(* probes all timed out returned at exactly one timeout, not five.           *)
C12_AllInFlightTogether ==
    \A c \in Callers :
        /\ \A j \in 1..Len(tasks[c]) :
              /\ tasks[c][j].state # "created" => tasks[c][j].started = 0
              /\ tasks[c][j].state = "done" => tasks[c][j].ended <= ProbeTimeout
        /\ elapsed[c] > 0 => \A j \in 1..Len(tasks[c]) : tasks[c][j].state # "created"
        /\ elapsed[c] <= ProbeTimeout
        /\ (ScanReturned(c) /\ \A j \in 1..Len(tasks[c]) :
                                   tasks[c][j].outcome = Raised(TimeoutError))
              => elapsed[c] = ProbeTimeout

\* a network outage: all five probes timed out and the scan has returned
C12_Witness ==
    \E c \in Callers :
        /\ ScanReturned(c)
        /\ Len(tasks[c]) = 5
        /\ \A j \in 1..Len(tasks[c]) :
              /\ tasks[c][j].outcome = Raised(TimeoutError)
              /\ tasks[c][j].ended = ProbeTimeout
        /\ elapsed[c] = ProbeTimeout

(* C15: within one investigation every configured platform has exactly one   *)
(* probe, and a probe issues at most one request: one once it has started,   *)
(* and still one when the scan has returned, whatever the probe's status.    *)
C15_OneRequestPerPlatform ==
    \A c \in Callers :
        /\ \A j \in 1..Len(tasks[c]) :
              /\ tasks[c][j].requests <= 1
              /\ tasks[c][j].state # "created" => tasks[c][j].requests = 1
        /\ pc[c] \in {"Scanning", "IntelligenceGathering", "Correlation", "Complete"} =>
              \A p \in DOMAIN self.platforms :
                  Cardinality({j \in 1..Len(tasks[c]) : tasks[c][j].platform = p}) = 1
        /\ ScanReturned(c) =>
              \A j \in 1..Len(tasks[c]) : tasks[c][j].requests = 1

\* a scan has returned with a not_found and an error among its results
C15_Witness ==
    \E c \in Callers :
        /\ ScanReturned(c)
        /\ StatusOf(Mapping(c)["github"]) = "not_found"
        /\ StatusOf(Mapping(c)["twitter"]) = "error"
        /\ tasks[c][1].requests = 1
        /\ tasks[c][2].requests = 1

(* C19: every investigation terminates: a scan always gets past its gather   *)
(* (no probe is waited for forever), and a started investigation reaches     *)
(* Complete with its report unless a non-scan stage raised.                  *)
C19_InvestigationTerminates ==
    \A c \in Callers :
        /\ (pc[c] = "Scanning") ~> (pc[c] = "IntelligenceGathering" /\ ScanReturned(c))
        /\ (pc[c] = "PatternAnalysis") ~>
              \/ pc[c] = "Complete" /\ report[c] # None
              \/ pc[c] = "Failed" /\ error[c] = StageFault

\* an investigation is Complete although one platform never answered and another did at once
C19_Witness ==
    \E c \in Callers :
        /\ pc[c] = "Complete"
        /\ report[c] # None
        /\ tasks[c][1].outcome = Raised(TimeoutError)
        /\ tasks[c][1].ended = Deadline(tasks[c][1])
        /\ tasks[c][2].outcome = Response(200)
        /\ tasks[c][2].ended = 0

(* C13: the level of a risk assessment is fixed by its score: below 0.3 low, *)
(* from 0.3 and below 0.7 medium, from 0.7 high (scores in hundredths), and  *)
(* the score stored in the assessment is the one the level was taken from.   *)
C13_RiskLevelThresholds ==
    calls.fn = "correlate_intelligence" =>
        \A i \in 1..Len(calls.outs) :
            LET assessment == calls.outs[i].risk_assessment IN
            /\ assessment.score = calls.score
            /\ assessment.level \in {"low", "medium", "high"}
            /\ assessment.level = "low" <=> assessment.score < 30
            /\ assessment.level = "medium" <=> (30 <= assessment.score /\ assessment.score < 70)
            /\ assessment.level = "high" <=> 70 <= assessment.score

\* the generator gave exactly 0.7 and the assessment says high
C13_Witness ==
    /\ calls.fn = "correlate_intelligence"
    /\ calls.score = 70
    /\ Len(calls.outs) = 2
    /\ calls.outs[1].risk_assessment.level = "high"
    /\ calls.outs[2].risk_assessment.score = 70

(* C14: brain_analyze classifies by the first rule that matches: generic if  *)
(* the username contains admin, test or user; else short if it is shorter    *)
(* than 5; else numeric if it has more than two digits; else personal. Two   *)
(* calls with one username agree on pattern_type and features.               *)
C14_FirstMatchClassification ==
    calls.fn = "brain_analyze" =>
        LET u        == calls.username
            listed   == \E x \in {<<"a", "d", "m", "i", "n">>, <<"t", "e", "s", "t">>,
                                  <<"u", "s", "e", "r">>} :
                            \E i \in 1..Len(u) : \E k \in i..Len(u) : SubSeq(u, i, k) = x
            short    == Len(u) < 5
            digits   == Cardinality({i \in 1..Len(u) :
                            u[i] \in {"0", "1", "2", "3", "4", "5", "6", "7", "8", "9"}})
        IN
        /\ \A i \in 1..Len(calls.outs) :
              LET type == calls.outs[i].pattern_type IN
              /\ type = "generic" <=> listed
              /\ type = "short" <=> (~listed /\ short)
              /\ type = "numeric" <=> (~listed /\ ~short /\ digits > 2)
              /\ type = "personal" <=> (~listed /\ ~short /\ digits <= 2)
              /\ u = Admin123 => type = "generic"
              /\ u = <<"a", "b">> => type = "short"
              /\ u = <<"a", "1", "b", "2", "c", "3", "d", "4">> => type = "numeric"
              /\ u = JohnDoe => type = "personal"
        /\ \A i, j \in 1..Len(calls.outs) :
              /\ calls.outs[i].pattern_type = calls.outs[j].pattern_type
              /\ calls.outs[i].features = calls.outs[j].features

\* a short name that contains a blocklisted word was analysed twice, with
\* different confidence, and is generic both times
C14_Witness ==
    /\ calls.fn = "brain_analyze"
    /\ calls.username = <<"t", "e", "s", "t">>
    /\ Len(calls.outs) = 2
    /\ calls.outs[1].confidence # calls.outs[2].confidence
    /\ calls.outs[1].pattern_type = "generic"
    /\ calls.outs[2].pattern_type = "generic"

====
